---- MODULE Spec2Model ----
(***************************************************************************)
(* A model of lede/builder.py: the Builder that synchronises the source    *)
(* repositories, prepares feeds and configuration, configures, builds and  *)
(* cleans the tree, deploys firmware to a device over SSH and writes the   *)
(* toolchain environment.                                                  *)
(*                                                                         *)
(* The version-control collaborator (GitPython) and the remote device are  *)
(* modelled by their effect on an explicit on-disk / on-server / on-device *)
(* state.  Environment assumptions of the model:                           *)
(*   - the network is reliable: a git operation fails only when the state  *)
(*     makes it fail (cloning a branch the server does not expose, pulling *)
(*     a branch the server does not expose, reading the active branch of a *)
(*     detached HEAD);                                                     *)
(*   - working trees are clean, so a checkout never fails;                 *)
(*   - a materialized repository has at most the remote "origin", and it   *)
(*     points at the server named by the repository's configured uri;      *)
(*   - nobody else touches the build directory during a run;               *)
(*   - text files end with a newline, so a file is the sequence of its     *)
(*     lines and appending to it appends whole lines; a line of a          *)
(*     configuration file is its key and its value;                        *)
(*   - an external command that fails has written nothing.                 *)
(***************************************************************************)
EXTENDS Integers, Sequences, FiniteSets, TLC

\* ------------------------------------------------------------ constants

LEDE == "lede"
LUCI == "luci"
LINUX == "linux"
CGMINER == "cgminer"

\* config.remote.repos, in declared order
ConfigRepos == <<LEDE, LUCI, LINUX, CGMINER>>

Names == {ConfigRepos[i] : i \in 1..Len(ConfigRepos)}

\* the branch each configured repository is required to be on
ConfigBranch(name) == IF name = CGMINER THEN "v1" ELSE "master"

Branches == {"master", "v1"}

\* the value of repo.head when it names no branch
Detached == "HEAD"

ORIGIN == "origin"

\* commits of one server are numbered 1..MaxTip along its history
MaxTip == 2

Max(a, b) == IF a >= b THEN a ELSE b

Range(s) == {s[i] : i \in 1..Len(s)}

\* ------------------------------------------------- the git collaborator

\* what is on disk at <build_dir>/<name> when it is no repository
NoRepo(kind) ==
    [disk |-> kind, remotes |-> <<>>, refs |-> {}, heads |-> {},
     active |-> Detached, hist |-> 0]

\* every server a repository can be cloned from
Servers == [branches : SUBSET Branches, tip : 1..MaxTip]

FullServer == [branches |-> Branches, tip |-> MaxTip]

\* every state a valid repository can be in: its remotes, their
\* remote-tracking refs <<remote, branch>>, its local heads, the active
\* branch (or a detached HEAD) and hist, the newest commit of the server's
\* history that the local object database holds (0: none)
ValidRepos ==
    {r \in [disk : {"repo"}, remotes : {<<>>, <<ORIGIN>>},
            refs : SUBSET ({ORIGIN} \X Branches),
            heads : SUBSET Branches, active : Branches \cup {Detached},
            hist : 0..MaxTip] :
        /\ r.heads # {}
        /\ r.active \in r.heads \cup {Detached}
        /\ (r.remotes = <<>> => r.refs = {})}

\* git.Repo(path): the three results _init_repos distinguishes
GitOpen(repo) ==
    CASE repo.disk = "missing" -> "NoSuchPathError"
      [] repo.disk \in {"empty", "invalid"} -> "InvalidGitRepositoryError"
      [] OTHER -> "Repo"

\* os.listdir(path) is non-empty
ListdirNonEmpty(repo) == repo.disk = "invalid"

\* git.Repo.clone_from(uri, path, branch=b) fails when the server does not
\* expose b; the target directory is then left as it was
CloneFails(srv, b) == b \notin srv.branches

\* the repository git.Repo.clone_from(uri, path, branch=b) creates
Cloned(srv, b) ==
    [disk |-> "repo", remotes |-> <<ORIGIN>>,
     refs |-> {<<ORIGIN, x>> : x \in srv.branches},
     heads |-> {b}, active |-> b, hist |-> srv.tip]

\* a loop over repo.remotes that fetches from none of them
FetchedNothing(repo, srv) == repo

\* repo_remote.fetch() on every remote of the repository: the
\* remote-tracking refs gain what the server exposes (nothing is pruned)
\* and the object database gains the server's history
Fetched(repo, srv) ==
    IF repo.remotes = <<>> \/ srv.branches = {} THEN repo
    ELSE [repo EXCEPT
            !.refs = @ \cup {<<rr, x>> : rr \in Range(repo.remotes),
                                         x \in srv.branches},
            !.hist = Max(@, srv.tip)]

\* remote.branch in repo_remote.refs, for some remote of the repository
SomeRemoteHasRef(repo, b) ==
    \E i \in 1..Len(repo.remotes) : <<repo.remotes[i], b>> \in repo.refs

\* repo_remote.pull() on every remote fails when the branch that is
\* checked out has nothing to merge from on the server
PullFails(repo, srv, b) == repo.remotes # <<>> /\ b \notin srv.branches

\* ------------------------------------------------------ _prepare_repo

\* RemoteWalker(config.remote, fetch): the configured repositories in
\* declared order, each with its uri (the server is named after the
\* repository), its branch and its fetch policy, which the command line
\* can force
RemoteWalker(fetchCfg, fetch) ==
    [i \in 1..Len(ConfigRepos) |->
        [name |-> ConfigRepos[i], uri |-> ConfigRepos[i],
         branch |-> ConfigBranch(ConfigRepos[i]),
         fetch |-> (fetchCfg[ConfigRepos[i]] \/ fetch)]]

\* `if not repo`: the store holds None for the repository
NotMaterializedAlways(stored) == TRUE

NotMaterialized(stored) == stored = "None"

\* self._repos[name] = repo, after the clone
StoreForgotten(stored) == stored

StoreCloned(stored) == "Repo"

\* the context _prepare_repo starts from: the repository on disk, the
\* store entry, and nothing done yet
Ctx(repo, stored) ==
    [repo |-> repo, stored |-> stored, ops |-> <<>>, log |-> <<>>, out |-> "ok"]

\* clone, or fetch when the fetch policy asks for it
CloneOrFetch(c, srv, remote) ==
    IF NotMaterialized(c.stored)
    THEN IF CloneFails(srv, remote.branch)
         THEN [c EXCEPT !.ops = Append(@, <<"clone", remote.name>>),
                        !.out = "GitCommandError"]
         ELSE [c EXCEPT !.repo = Cloned(srv, remote.branch),
                        !.stored = StoreCloned(@),
                        !.ops = Append(@, <<"clone", remote.name>>)]
    ELSE IF remote.fetch
         THEN [c EXCEPT !.repo = Fetched(@, srv),
                        !.ops = @ \o [i \in 1..Len(c.repo.remotes) |->
                                        <<"fetch", remote.name>>]]
         ELSE c

\* the for-else over repo.remotes found no remote with the branch
BranchNowhereNever(repo, b) == FALSE

BranchNowhere(repo, b) == ~SomeRemoteHasRef(repo, b)

\* make sure the required branch exists locally, or stop
EnsureHead(c, remote) ==
    IF c.out # "ok" \/ remote.branch \in c.repo.heads THEN c
    ELSE IF BranchNowhere(c.repo, remote.branch)
         THEN [c EXCEPT !.log = Append(@, <<"Branch does not exist", remote.name>>),
                        !.out = "BuilderStop"]
         ELSE [c EXCEPT !.repo.heads = @ \cup {remote.branch},
                        !.ops = Append(@, <<"create_head", remote.name>>)]

\* `repo.active_branch != branch`; reading repo.active_branch of a
\* detached HEAD raises TypeError
NeedsCheckoutNever(repo, b) == FALSE

NeedsCheckout(repo, b) == repo.active # b

Checkout(c, remote) ==
    IF c.out # "ok" THEN c
    ELSE IF c.repo.active = Detached THEN [c EXCEPT !.out = "TypeError"]
    ELSE IF NeedsCheckout(c.repo, remote.branch)
         THEN [c EXCEPT !.repo.active = remote.branch,
                        !.ops = Append(@, <<"checkout", remote.name>>)]
         ELSE c

\* pull on every remote when the fetch policy asks for it
Pull(c, srv, remote) ==
    IF c.out # "ok" \/ ~remote.fetch \/ c.repo.remotes = <<>> THEN c
    ELSE IF PullFails(c.repo, srv, remote.branch)
         THEN [c EXCEPT !.ops = Append(@, <<"pull", remote.name>>),
                        !.out = "GitCommandError"]
         ELSE [c EXCEPT !.repo = Fetched(@, srv),
                        !.ops = @ \o [i \in 1..Len(c.repo.remotes) |->
                                        <<"pull", remote.name>>]]

_prepare_repo(repo, stored, srv, remote) ==
    Pull(Checkout(EnsureHead(CloneOrFetch(Ctx(repo, stored), srv, remote),
                             remote), remote), srv, remote)

\* ------------------------------------------------------- files, _run

FEEDS_CONF_SRC == "feeds.conf.default"
FEEDS_CONF_DST == "feeds.conf"
CONFIG_NAME == ".config"

\* feeds.conf.default of the lede tree, a line being its words
FeedsTemplate ==
    << <<"src-git", "packages">>, <<"src-git", LUCI>>, <<"src-git", "routing">> >>

\* the authored configuration, config.build.config
AuthoredConfig == << <<"CONFIG_TARGET_zynq", "y">> >>

\* what `make defconfig` writes when there is no .config
DefaultConfig == << <<"CONFIG_TARGET_DEFAULT", "y">> >>

\* the two lines _prepare_config appends to the copied configuration
DerivedLines ==
    << <<"CONFIG_EXTERNAL_KERNEL_TREE", LINUX>>,
       <<"CONFIG_EXTERNAL_CGMINER_TREE", CGMINER>> >>

\* the lines of a configuration that are the last to set their key
LastSet(lines) ==
    SelectSeq([i \in 1..Len(lines) |->
                  IF \E j \in (i + 1)..Len(lines) : lines[j][1] = lines[i][1]
                  THEN <<>> ELSE lines[i]],
              LAMBDA l : l # <<>>)

\* what `make defconfig` makes of a .config: every key once with the value
\* set last, the defaults first for the keys that are not set
Expand(lines) ==
    SelectSeq(DefaultConfig,
              LAMBDA d : \A i \in 1..Len(lines) : lines[i][1] # d[1])
    \o LastSet(lines)

\* the images a build for one C library leaves in the build output
Built(dir) == {<<dir, "BOOT.bin">>, <<dir, "fit.itb">>}

\* the files of the lede working tree that the Builder reads and writes,
\* and the authored configuration; times are modification times, writes
\* counts how often feeds.conf was opened for writing, raw is what the
\* last copy and append made of .config, bin the images in the build
\* output and staging the directories under staging_dir
FreshFiles ==
    [feeds |-> [exists |-> FALSE, lines |-> <<>>, writes |-> 0],
     config |-> [exists |-> FALSE, mtime |-> 0, lines |-> <<>>, raw |-> <<>>],
     source |-> [mtime |-> 2, lines |-> AuthoredConfig],
     bin |-> {}, staging |-> {}]

\* a tree an earlier prepare has worked on; dstTime is the time of .config
PreparedFiles(dstTime) ==
    [feeds |-> [exists |-> TRUE,
                lines |-> << <<"src-git", "packages">>, <<"src-git", "routing">>,
                             <<"src-link", LUCI, LUCI>> >>,
                writes |-> 1],
     config |-> [exists |-> TRUE, mtime |-> dstTime,
                 lines |-> Expand(AuthoredConfig \o DerivedLines),
                 raw |-> AuthoredConfig \o DerivedLines],
     source |-> [mtime |-> 2, lines |-> AuthoredConfig],
     bin |-> {}, staging |-> {}]

\* a test that finds luci in no line
MentionsLuciNever(line) == FALSE

\* `self.LUCI not in line`
MentionsLuci(line) == \E i \in 1..Len(line) : line[i] = LUCI

RECURSIVE FilterLines(_)
\* the template's lines that do not mention luci, in order
FilterLines(lines) ==
    IF lines = <<>> THEN <<>>
    ELSE IF MentionsLuci(Head(lines)) THEN FilterLines(Tail(lines))
    ELSE <<Head(lines)>> \o FilterLines(Tail(lines))

\* subprocess.run(args, check=True, cwd=self._working_dir): the record of
\* one external command
Cmd(args, cwd) == [args |-> args, cwd |-> cwd]

\* a run without check=True, which never raises
FailedNever(ok) == FALSE

\* subprocess.run(..., check=True) raises CalledProcessError
Failed(ok) == ~ok

\* the command as _run has run it, with the exit code it returned;
\* check=True raises CalledProcessError when the code is not zero
Ran(cmd, ok) == [args |-> cmd.args, cwd |-> cmd.cwd, rc |-> IF ok THEN 0 ELSE 1]

\* ---------------------------------------------------------------- state

VARIABLES
    repos,        \* what is on disk at <build_dir>/<name>, per repository
    origin,       \* the server each repository's uri names (never written)
    cfg,          \* the configuration object (never written)
    initial,      \* the repositories and files as the run found them (never written)
    buildDir,     \* os.path.exists(self._build_dir)
    store,        \* self._repos: "unset", "None" or "Repo", per repository
    working_dir,  \* self._working_dir: "None" or the lede repository's root
    pc,           \* where the running operation is
    idx,          \* the position of the loop over the repositories
    error,        \* the local flag of _init_repos
    walker,       \* the remotes prepare iterates over
    outcome,      \* "running", "ok", or the exception that ended the run
    errlog,       \* what logging.error has recorded
    gitops,       \* the version-control operations performed, in order
    files,        \* feeds.conf, .config and the authored configuration
    clock,        \* the modification time the next write gives
    cmds,         \* the external commands _run has started, in order
    dev,          \* the device: its session, channel, mounts and files
    rops,         \* the remote operations issued, in order
    env,          \* os.environ['PATH'] of the process (never written)
    stdout,       \* the lines written to sys.stdout, in order
    calls,        \* the public operations that have returned to the caller
    asked         \* the targets and verbosity each call of build was given

vars == <<repos, origin, cfg, initial, buildDir, store, working_dir, pc, idx, error,
          walker, outcome, errlog, gitops, files, clock, cmds, dev, rops,
          env, stdout, calls, asked>>

procVars == <<env, stdout, calls, asked>>

repoVars == <<repos, origin, buildDir, store, idx, error, walker, gitops>>

fileVars == <<files, clock, cmds>>

deviceVars == <<dev, rops>>

\* the device before any session: no channel, nothing mounted on /mnt
\* (mounts is the stack of partitions mounted there), the marker file
\* etc/.extroot-uuid of partition 2 there or not, and no file written yet
IdleDevice(marker) ==
    [ssh |-> "none", sftp |-> "none", mounts |-> <<>>, cwd |-> "/",
     marker |-> marker, written |-> {}]

\* the configuration with no flag forced
PlainConfig ==
    [fetch |-> [n \in Names |-> FALSE],
     feeds_create |-> FALSE, feeds_update |-> FALSE, feeds_install |-> FALSE,
     config_always |-> FALSE,
     target |-> "sd", remove_uuid |-> FALSE, reboot |-> FALSE]

\* the repository an earlier run left on the branch that is not required
OtherBranchClone(name) ==
    Cloned(FullServer, CHOOSE b \in Branches : b # ConfigBranch(name))

\* the states of one directory that _init_repos tells apart
BasicRepos(name) ==
    {NoRepo("missing"), NoRepo("empty"), NoRepo("invalid"), OtherBranchClone(name)}

\* every state of one directory
AnyRepo == {NoRepo("missing"), NoRepo("empty"), NoRepo("invalid")} \cup ValidRepos

\* the lede tree's files: none unless the tree was there before the run
FilesFor(lede) ==
    IF lede.disk = "repo"
    THEN {FreshFiles, PreparedFiles(1), PreparedFiles(3)}
    ELSE {FreshFiles}

\* a build directory in which every repository is in one of the basic states
InitBasic ==
    /\ repos \in {f \in [Names -> UNION {BasicRepos(n) : n \in Names}] :
                     \A n \in Names : f[n] \in BasicRepos(n)}
    /\ origin = [n \in Names |-> FullServer]
    /\ cfg \in {[PlainConfig EXCEPT !.fetch = [n \in Names |-> f]] : f \in BOOLEAN}

\* a build directory in which one repository is in any state at all, its
\* server too, and the others have not been cloned yet
InitFocus ==
    \E k \in Names :
        /\ repos \in {[n \in Names |-> IF n = k THEN r ELSE NoRepo("missing")] :
                         r \in AnyRepo}
        /\ origin \in {[n \in Names |-> IF n = k THEN s ELSE FullServer] :
                          s \in Servers}
        /\ cfg \in {[PlainConfig EXCEPT !.fetch = [n \in Names |-> n = k /\ f]] :
                       f \in BOOLEAN}

\* the state Builder.__init__ starts _init_repos in
InitBuilder ==
    /\ buildDir \in (IF \A n \in Names : repos[n].disk = "missing"
                     THEN BOOLEAN ELSE {TRUE})
    /\ store = [n \in Names |-> "unset"]
    /\ working_dir = "None"
    /\ pc = "new"
    /\ idx = 1
    /\ error = FALSE
    /\ walker = <<>>
    /\ outcome = "running"
    /\ errlog = <<>>
    /\ gitops = <<>>
    /\ files \in FilesFor(repos[LEDE])
    /\ initial = [repos |-> repos, files |-> files, marker |-> FALSE]
    /\ clock = 4
    /\ cmds = <<>>
    /\ dev = IdleDevice(FALSE)
    /\ rops = <<>>
    /\ env = <<>>
    /\ stdout = <<>>
    /\ calls = 0
    /\ asked = <<>>

Init == (InitBasic \/ InitFocus) /\ InitBuilder

\* ----------------------------------------------------------- _init_repos

\* the store entry _init_repos gives a directory
Opened(repo) == IF GitOpen(repo) = "Repo" THEN "Repo" ELSE "None"

\* an empty directory taken for an error too
IsInvalidEvenEmpty(repo) == GitOpen(repo) = "InvalidGitRepositoryError"

\* the directory is an error: not a repository, and not empty
IsInvalid(repo) ==
    GitOpen(repo) = "InvalidGitRepositoryError" /\ ListdirNonEmpty(repo)

\* one turn of the loop of _init_repos
_init_repos ==
    /\ pc = "new"
    /\ idx <= Len(ConfigRepos)
    /\ LET name == ConfigRepos[idx] IN
        /\ store' = [store EXCEPT ![name] = Opened(repos[name])]
        /\ error' = (error \/ IsInvalid(repos[name]))
        /\ errlog' = IF IsInvalid(repos[name])
                     THEN Append(errlog, <<"Invalid Git repository", name>>)
                     ELSE errlog
    /\ idx' = idx + 1
    /\ UNCHANGED <<repos, origin, cfg, initial, buildDir, working_dir, pc, walker,
                   outcome, gitops>>
    /\ UNCHANGED fileVars
    /\ UNCHANGED deviceVars
    /\ UNCHANGED procVars

\* a scan that forgets the errors it recorded
StopAfterScanNever(err) == FALSE

\* `if error: raise BuilderStop`, after the loop
StopAfterScan(err) == err

\* the end of _init_repos, and of Builder.__init__
_init_repos_end ==
    /\ pc = "new"
    /\ idx > Len(ConfigRepos)
    /\ IF StopAfterScan(error)
       THEN pc' = "aborted" /\ outcome' = "BuilderStop"
       ELSE pc' = "ready" /\ outcome' = outcome
    /\ UNCHANGED <<repos, origin, cfg, initial, buildDir, store, working_dir, idx, error,
                   walker, errlog, gitops>>
    /\ UNCHANGED fileVars
    /\ UNCHANGED deviceVars
    /\ UNCHANGED procVars

\* ---------------------------------------------------------------- prepare

\* prepare(fetch): create the build directory and start the loop
prepare ==
    /\ pc = "ready"
    /\ \E fetch \in BOOLEAN : walker' = RemoteWalker(cfg.fetch, fetch)
    /\ buildDir' = TRUE
    /\ pc' = "sync"
    /\ idx' = 1
    /\ UNCHANGED <<repos, origin, cfg, initial, store, working_dir, error, outcome,
                   errlog, gitops>>
    /\ UNCHANGED fileVars
    /\ UNCHANGED deviceVars
    /\ UNCHANGED procVars

\* one turn of the loop of prepare: _prepare_repo(remote); an exception
\* ends the run
prepare_repo ==
    /\ pc = "sync"
    /\ idx <= Len(walker)
    /\ LET remote == walker[idx]
           c == _prepare_repo(repos[remote.name], store[remote.name],
                              origin[remote.name], remote)
       IN
        /\ repos' = [repos EXCEPT ![remote.name] = c.repo]
        /\ store' = [store EXCEPT ![remote.name] = c.stored]
        /\ gitops' = gitops \o c.ops
        /\ errlog' = errlog \o c.log
        /\ IF c.out = "ok"
           THEN idx' = idx + 1 /\ pc' = pc /\ outcome' = outcome
           ELSE idx' = idx /\ pc' = "aborted" /\ outcome' = c.out
    /\ UNCHANGED <<origin, cfg, initial, buildDir, working_dir, error, walker>>
    /\ UNCHANGED fileVars
    /\ UNCHANGED deviceVars
    /\ UNCHANGED procVars

\* a loop that can be left before its last turn
LoopDoneAnytime(i, w) == TRUE

\* `for remote in RemoteWalker(...)` has no remote left
LoopDone(i, w) == i > Len(w)

\* self._working_dir = self._get_repo(self.LEDE).working_dir
prepare_working_dir ==
    /\ pc = "sync"
    /\ LoopDone(idx, walker)
    /\ working_dir' = LEDE
    /\ pc' = "feeds"
    /\ UNCHANGED repoVars
    /\ UNCHANGED <<cfg, initial, outcome, errlog>>
    /\ UNCHANGED fileVars
    /\ UNCHANGED deviceVars
    /\ UNCHANGED procVars

\* --------------------------------------------------------- _prepare_feeds

FeedsUpdateCmd(cwd) == Cmd(<<"scripts/feeds", "update", "-a">>, cwd)

FeedsInstallCmd(cwd) == Cmd(<<"scripts/feeds", "install", "-a">>, cwd)

\* the manifest _prepare_feeds writes: the template without the lines
\* that mention luci, then the link to the luci tree
FeedsManifest(luci_dir) ==
    [exists |-> TRUE,
     lines |-> FilterLines(FeedsTemplate) \o << <<"src-link", LUCI, luci_dir>> >>]

\* a flag that creating the manifest does not set
RequiredWhenForced(flag, create) == flag

\* feeds_update and feeds_install when the commands are reached: the flag
\* of the configuration, set to True when the manifest is created
Required(flag, create) == flag \/ create

\* _prepare_feeds with the exit codes of its two commands: okU of the
\* update, okI of the install (read only when the command is run)
FeedsPass(f, conf, cwd, okU, okI) ==
    LET create == ~f.feeds.exists \/ conf.feeds_create
        feeds_update == Required(conf.feeds_update, create)
        feeds_install == Required(conf.feeds_install, create)
        written == IF create
                   THEN [f EXCEPT !.feeds.exists = FeedsManifest(LUCI).exists,
                                  !.feeds.lines = FeedsManifest(LUCI).lines,
                                  !.feeds.writes = @ + 1]
                   ELSE f
        updateFailed == feeds_update /\ Failed(okU)
        installRun == feeds_install /\ ~updateFailed
    IN  [files |-> written,
         cmds |-> (IF feeds_update THEN <<Ran(FeedsUpdateCmd(cwd), okU)>> ELSE <<>>)
                   \o (IF installRun THEN <<Ran(FeedsInstallCmd(cwd), okI)>> ELSE <<>>),
         out |-> IF updateFailed \/ (installRun /\ Failed(okI))
                 THEN "CalledProcessError" ELSE "ok"]

_prepare_feeds ==
    /\ pc = "feeds"
    /\ \E okU, okI \in BOOLEAN :
        LET r == FeedsPass(files, cfg, working_dir, okU, okI) IN
            /\ files' = r.files
            /\ cmds' = cmds \o r.cmds
            /\ IF r.out = "ok"
               THEN pc' = "config" /\ outcome' = outcome
               ELSE pc' = "aborted" /\ outcome' = r.out
    /\ UNCHANGED repoVars
    /\ UNCHANGED <<cfg, initial, working_dir, clock, errlog>>
    /\ UNCHANGED deviceVars
    /\ UNCHANGED procVars

\* -------------------------------------------------------- _prepare_config

DefconfigCmd(cwd) == Cmd(<<"make", "defconfig">>, cwd)

\* a comparison that takes equal times for older
OlderOrEqual(dst_time, src_time) == dst_time <= src_time

\* `config_dst_time < config_src_time`
Older(dst_time, src_time) == dst_time < src_time

\* _prepare_config at time clk with the exit codes of its two commands:
\* ok1 of the first `make defconfig`, ok2 of the one after the append
ConfigPass(f, conf, cwd, clk, ok1, ok2) ==
    LET default_config == ~f.config.exists
        first == IF default_config
                 THEN [f EXCEPT !.config = [exists |-> TRUE, mtime |-> clk,
                                            lines |-> Expand(<<>>), raw |-> <<>>]]
                 ELSE f
        copy == default_config \/ Older(first.config.mtime, f.source.mtime)
                \/ conf.config_always
        appended == [first EXCEPT !.config =
                        [exists |-> TRUE, mtime |-> clk + 1,
                         lines |-> f.source.lines \o DerivedLines,
                         raw |-> f.source.lines \o DerivedLines]]
        expanded == [appended EXCEPT !.config.mtime = clk + 2,
                                     !.config.lines = Expand(@)]
        cmds1 == IF default_config THEN <<Ran(DefconfigCmd(cwd), ok1)>> ELSE <<>>
    IN  IF default_config /\ Failed(ok1)
        THEN [files |-> f, cmds |-> cmds1, out |-> "CalledProcessError"]
        ELSE IF ~copy
        THEN [files |-> first, cmds |-> cmds1, out |-> "ok"]
        ELSE IF Failed(ok2)
        THEN [files |-> appended, cmds |-> Append(cmds1, Ran(DefconfigCmd(cwd), ok2)),
              out |-> "CalledProcessError"]
        ELSE [files |-> expanded, cmds |-> Append(cmds1, Ran(DefconfigCmd(cwd), ok2)),
              out |-> "ok"]

_prepare_config ==
    /\ pc = "config"
    /\ \E ok1, ok2 \in BOOLEAN :
        LET r == ConfigPass(files, cfg, working_dir, clock, ok1, ok2) IN
            /\ files' = r.files
            /\ cmds' = cmds \o r.cmds
            /\ IF r.out = "ok"
               THEN pc' = "done" /\ outcome' = "ok"
               ELSE pc' = "aborted" /\ outcome' = r.out
    /\ clock' = clock + 3
    /\ UNCHANGED repoVars
    /\ UNCHANGED <<cfg, initial, working_dir, errlog>>
    /\ UNCHANGED deviceVars
    /\ UNCHANGED procVars

\* ---------------------------------------------------------- specification

\* Builder(config, argv) followed by prepare
Next ==
    \/ _init_repos
    \/ _init_repos_end
    \/ prepare
    \/ prepare_repo
    \/ prepare_working_dir
    \/ _prepare_feeds
    \/ _prepare_config

Spec == Init /\ [][Next]_vars

\* ------------------------------------------- claims on synchronization

\* the synchronization pass of prepare was ended by an exception
SyncAborted == pc = "aborted" /\ walker # <<>> /\ idx <= Len(walker)

\* the synchronization pass of prepare went through every remote
SyncCompleted == walker # <<>> /\ idx > Len(walker)

\* the positions of the remotes _prepare_repo returned normally for
Returned == IF walker = <<>> THEN {} ELSE 1..(idx - 1)

\* the positions of the remotes _prepare_repo was called for
Entered == IF SyncAborted THEN 1..idx ELSE Returned

\* the store entry the repository had when prepare started
StoredAtStart(n) == Opened(initial.repos[n])

OnBranch(i) ==
    /\ repos[walker[i].name].disk = "repo"
    /\ repos[walker[i].name].active = walker[i].branch

Logged(msg) == \E k \in 1..Len(errlog) : errlog[k][1] = msg

OpsOn(n) == {k \in 1..Len(gitops) : gitops[k][2] = n}

ClonesOf(n) == Cardinality({k \in 1..Len(gitops) : gitops[k] = <<"clone", n>>})

\* C1: once the synchronization pass has stopped, either every remote it
\* was called for is materialized on its required branch, or the run was
\* ended by BuilderStop after logging an error.
C1_NoThirdOutcome ==
    (SyncAborted \/ SyncCompleted) =>
        \/ \A i \in Entered : OnBranch(i)
        \/ outcome = "BuilderStop" /\ Logged("Branch does not exist")

\* the local history holds the tip the server has for the required branch
IncludesTip(i) ==
    walker[i].branch \in origin[walker[i].name].branches =>
        repos[walker[i].name].hist >= origin[walker[i].name].tip

\* C2 as stated: after _prepare_repo returns normally the local history
\* includes the remote tip of the required branch, whether or not the
\* repository was materialized and whether or not fetch is set.
C2_TipAlways == \A i \in Returned : IncludesTip(i)

\* C2, amended: after _prepare_repo returns normally the local history
\* includes the remote tip of the required branch if the call cloned the
\* repository, or if fetch is set and the repository has a remote.
C2_TipWhenClonedOrFetched ==
    \A i \in Returned :
        (\/ StoredAtStart(walker[i].name) = "None"
         \/ walker[i].fetch /\ repos[walker[i].name].remotes # <<>>)
        => IncludesTip(i)

\* a materialized repository that was behind its server was fetched
C2_Witness ==
    \E i \in Returned :
        /\ StoredAtStart(walker[i].name) = "Repo"
        /\ walker[i].fetch
        /\ walker[i].branch \in origin[walker[i].name].branches
        /\ initial.repos[walker[i].name].hist < origin[walker[i].name].tip
        /\ repos[walker[i].name].hist = origin[walker[i].name].tip

\* a materialized, unfetched repository was found on its required branch
\* and is still behind its server
C2_WitnessStale ==
    \E i \in Returned :
        /\ StoredAtStart(walker[i].name) = "Repo"
        /\ ~walker[i].fetch
        /\ walker[i].branch \in origin[walker[i].name].branches
        /\ repos[walker[i].name].hist < origin[walker[i].name].tip

\* no repository was materialized when prepare started and every server
\* exposes the required branch
NoneMaterialized ==
    \A n \in Names :
        StoredAtStart(n) = "None" /\ ConfigBranch(n) \in origin[n].branches

\* the clones among the operations performed, in order
RECURSIVE ClonesIn(_)
ClonesIn(ops) ==
    IF ops = <<>> THEN <<>>
    ELSE IF Head(ops)[1] = "clone" THEN <<Head(ops)>> \o ClonesIn(Tail(ops))
    ELSE ClonesIn(Tail(ops))

\* C3: a repository is cloned exactly when it is not materialized at its
\* turn; with nothing materialized and every branch exposed, the pass
\* clones each repository once, in declared order, leaves each on its
\* branch and in the store, and is not ended by an exception.
C3_CloneIffNotMaterialized ==
    /\ \A i \in 1..Len(ConfigRepos) :
        ClonesOf(ConfigRepos[i]) =
            IF i \in Entered /\ StoredAtStart(ConfigRepos[i]) = "None" THEN 1 ELSE 0
    /\ (walker # <<>> /\ NoneMaterialized) =>
        /\ ~SyncAborted
        /\ ClonesIn(gitops) = [i \in 1..(idx - 1) |-> <<"clone", ConfigRepos[i]>>]
        /\ \A i \in Returned : OnBranch(i) /\ store[walker[i].name] = "Repo"

\* the pass completed from an empty build directory with one clone each
C3_Witness ==
    /\ pc = "feeds"
    /\ NoneMaterialized
    /\ Len(ClonesIn(gitops)) = Len(ConfigRepos)
    /\ \A n \in Names : store[n] = "Repo" /\ repos[n].active = ConfigBranch(n)

\* the required branch is neither a local head nor a remote-tracking ref
\* of the repository, nor a branch of its server
BranchMissing(n) ==
    /\ ConfigBranch(n) \notin initial.repos[n].heads
    /\ ~SomeRemoteHasRef(initial.repos[n], ConfigBranch(n))
    /\ ConfigBranch(n) \notin origin[n].branches

\* C4: when the required branch of repository i is missing locally and on
\* every remote, the pass is ended at i (by BuilderStop, after logging, if
\* the repository is materialized); and whenever the pass is ended at i, no
\* later repository has been touched, no feed or configuration step has
\* run, and every earlier repository is as _prepare_repo left it.
C4_StopIsImmediate ==
    /\ \A i \in Entered :
        BranchMissing(walker[i].name) =>
            /\ SyncAborted /\ idx = i
            /\ StoredAtStart(walker[i].name) = "Repo" =>
                outcome = "BuilderStop" /\ Logged("Branch does not exist")
    /\ SyncAborted =>
        /\ \A j \in (idx + 1)..Len(walker) :
            /\ repos[walker[j].name] = initial.repos[walker[j].name]
            /\ store[walker[j].name] = StoredAtStart(walker[j].name)
            /\ OpsOn(walker[j].name) = {}
        /\ cmds = <<>> /\ files = initial.files /\ working_dir = "None"
        /\ \A j \in 1..(idx - 1) :
            /\ OnBranch(j)
            /\ repos[walker[j].name] =
                 _prepare_repo(initial.repos[walker[j].name],
                               StoredAtStart(walker[j].name),
                               origin[walker[j].name], walker[j]).repo

\* the pass was stopped at the second repository, whose branch is missing,
\* after the first had been cloned
C4_Witness ==
    /\ SyncAborted /\ idx = 2
    /\ outcome = "BuilderStop"
    /\ BranchMissing(walker[2].name)
    /\ ClonesOf(walker[1].name) = 1
    /\ OnBranch(1)

\* C5: _init_repos examines every configured repository; a non-empty
\* directory that is no repository logs an error, a missing or an empty
\* one logs none and is stored as None; BuilderStop is raised after the
\* last one, exactly when an error was logged.
C5_ScanIsBatched ==
    walker = <<>> =>
    /\ pc = "new" => outcome = "running"
    /\ \A i \in 1..Len(ConfigRepos) :
        LET n == ConfigRepos[i] IN
        (pc # "new" \/ i < idx) =>
            /\ store[n] # "unset"
            /\ initial.repos[n].disk \in {"missing", "empty"} => store[n] = "None"
            /\ (\E k \in 1..Len(errlog) : errlog[k] = <<"Invalid Git repository", n>>)
                 <=> initial.repos[n].disk = "invalid"
    /\ pc # "new" =>
        ((pc = "aborted" /\ outcome = "BuilderStop")
            <=> \E n \in Names : initial.repos[n].disk = "invalid")

\* the scan found the first directory invalid and still examined the rest,
\* among them a missing and an empty one, before it stopped
C5_Witness ==
    /\ pc = "aborted" /\ walker = <<>>
    /\ initial.repos[ConfigRepos[1]].disk = "invalid"
    /\ \E n \in Names : initial.repos[n].disk = "missing" /\ store[n] = "None"
    /\ \E n \in Names : initial.repos[n].disk = "empty" /\ store[n] = "None"
    /\ Len(errlog) >= 2

\* ------------------------------------------------------------ _config_lede

\* the configurations the user can leave `make menuconfig` with
MenuChoices ==
    {<<>>, AuthoredConfig \o << <<"CONFIG_LIBC", "glibc">> >>,
     << <<"CONFIG_LIBC", "glibc">>, <<"CONFIG_PACKAGE_luci", "y">> >>}

\* what the user does who leaves the tool without saving
NoSave == << <<"exit without saving">> >>

MenuconfigCmd(cwd) == Cmd(<<"make", "menuconfig">>, cwd)

DiffconfigCmd(cwd) == Cmd(<<"scripts/diffconfig.sh">>, cwd)

\* `make menuconfig` left by saving: .config holds the user's choice and
\* keeps the other keys it had set, expanded, and has a new time
Menuconfig(f, choice, clk) ==
    [f EXCEPT !.config.lines =
                  Expand(choice \o
                         SelectSeq(f.config.lines,
                                   LAMBDA l : \E i \in 1..Len(DerivedLines) :
                                                  l[1] = DerivedLines[i][1])),
              !.config.mtime = clk]

\* the output of scripts/diffconfig.sh: the lines of .config that differ
\* from the defaults
Diff(lines) ==
    SelectSeq(lines, LAMBDA l : \A i \in 1..Len(DefaultConfig) : l # DefaultConfig[i])

\* the keys whose lines _config_lede does not store
configs == <<"CONFIG_EXTERNAL_KERNEL_TREE", "CONFIG_EXTERNAL_CGMINER_TREE">>

\* a test that looks for the first key only
StartsWithFirstConfig(line) == line[1] = configs[1]

\* any(line.startswith(config) for config in configs)
StartsWithConfig(line) == \E i \in 1..Len(configs) : line[1] = configs[i]

\* a filter that stores every line
FilteredNothing(lines) == lines

\* the lines _config_lede writes to the authored configuration
Filtered(lines) == SelectSeq(lines, LAMBDA l : ~StartsWithConfig(l))

\* the tool was left without saving, whatever the user says
SavedNever(choice) == FALSE

\* the user left the tool by saving a configuration
Saved(choice) == choice # NoSave

\* a comparison that never finds the time unchanged
UnchangedNever(before, after) == FALSE

\* `os.path.getmtime(config_src_path) == config_src_time`
Unchanged(before, after) == after = before

\* _config_lede at time clk: okM is the exit code of `make menuconfig`,
\* choice what the user did there, okD the exit code of diffconfig.sh
ConfigLede(f, cwd, clk, okM, choice, okD) ==
    LET edited == IF Saved(choice) THEN Menuconfig(f, choice, clk) ELSE f
        truncated == [edited EXCEPT !.source = [mtime |-> clk + 1, lines |-> <<>>]]
        stored == [truncated EXCEPT
                      !.source.lines = Filtered(Diff(edited.config.lines))]
        menu == Ran(MenuconfigCmd(cwd), okM)
    IN  IF ~f.config.exists
        THEN [files |-> f, cmds |-> <<>>, out |-> "FileNotFoundError"]
        ELSE IF Failed(okM)
        THEN [files |-> f, cmds |-> <<menu>>, out |-> "CalledProcessError"]
        ELSE IF Unchanged(f.config.mtime, edited.config.mtime)
        THEN [files |-> edited, cmds |-> <<menu>>, out |-> "ok"]
        ELSE IF Failed(okD)
        THEN [files |-> truncated,
              cmds |-> <<menu, Ran(DiffconfigCmd(cwd), okD)>>,
              out |-> "CalledProcessError"]
        ELSE [files |-> stored,
              cmds |-> <<menu, Ran(DiffconfigCmd(cwd), okD)>>,
              out |-> "ok"]

KernelMenuconfigCmd(cwd) == Cmd(<<"make", "kernel_menuconfig">>, cwd)

\* the end of a public operation that ran commands: it returns, or the
\* exception ends the run
Finish(out) ==
    IF out = "ok"
    THEN pc' = "done" /\ outcome' = "ok"
    ELSE pc' = "aborted" /\ outcome' = out

\* config(kernel): _config_kernel, or _config_lede, which needs the
\* working directory to name the two files
config ==
    /\ pc = "ready"
    /\ \E kernel \in BOOLEAN :
        IF kernel
        THEN \E ok \in BOOLEAN :
                /\ cmds' = Append(cmds, Ran(KernelMenuconfigCmd(working_dir), ok))
                /\ Finish(IF Failed(ok) THEN "CalledProcessError" ELSE "ok")
                /\ UNCHANGED <<files, clock>>
        ELSE IF working_dir = "None"
        THEN /\ Finish("TypeError")
             /\ UNCHANGED <<files, clock, cmds>>
        ELSE \E okM, okD \in BOOLEAN : \E choice \in MenuChoices \cup {NoSave} :
                LET r == ConfigLede(files, working_dir, clock, okM, choice, okD) IN
                    /\ files' = r.files
                    /\ cmds' = cmds \o r.cmds
                    /\ clock' = clock + 2
                    /\ Finish(r.out)
    /\ UNCHANGED repoVars
    /\ UNCHANGED <<cfg, initial, working_dir, errlog>>
    /\ UNCHANGED deviceVars
    /\ UNCHANGED procVars

\* ------------------------------------------------------------ build, clean

\* config.build.aliases
aliases == [uboot |-> "package/boot/uboot-zynq", firmware |-> "target/linux"]

\* the target lists build is asked for; "sdk" has no alias
TargetLists ==
    {<<>>, <<"firmware", "uboot">>, <<"uboot", "sdk">>}

\* a table in which every lookup finds something
AliasMissNever(targets) == FALSE

\* aliases[target] finds no entry for one of the targets, and raises
AliasMiss(targets) ==
    \E i \in 1..Len(targets) : targets[i] \notin DOMAIN aliases

\* '{}/install'.format(aliases[target])
InstallTarget(target) ==
    (IF target \in DOMAIN aliases THEN aliases[target] ELSE "None") \o "/install"

\* the arguments of make: the jobs, the verbosity, and every target as
\* '<alias>/install', in the order given
BuildArgs(jobs, verbose, targets) ==
    <<"make", "-j" \o jobs>>
    \o (IF verbose THEN <<"V=s">> ELSE <<>>)
    \o [i \in 1..Len(targets) |-> InstallTarget(targets[i])]

\* the directory of the build output a build of this .config fills
OutputDir(f) ==
    IF \E i \in 1..Len(f.config.lines) : f.config.lines[i] = <<"CONFIG_LIBC", "glibc">>
    THEN "generic-glibc" ELSE "generic"

\* build(targets, verbose): the alias of a target that has none raises
\* before make is run; a build in the lede tree leaves the images
build ==
    /\ pc = "ready"
    /\ \E targets \in TargetLists : \E verbose, ok \in BOOLEAN :
        /\ asked' = Append(asked, [targets |-> targets, verbose |-> verbose])
        /\ IF AliasMiss(targets)
           THEN /\ Finish("KeyError")
                /\ UNCHANGED <<files, cmds>>
           ELSE /\ cmds' = Append(cmds, Ran(Cmd(BuildArgs("1", verbose, targets),
                                                working_dir), ok))
                /\ files' = IF ok /\ working_dir = LEDE /\ files.config.exists
                            THEN [files EXCEPT !.bin = @ \cup Built(OutputDir(files))]
                            ELSE files
                /\ Finish(IF Failed(ok) THEN "CalledProcessError" ELSE "ok")
    /\ UNCHANGED repoVars
    /\ UNCHANGED <<cfg, initial, working_dir, errlog, clock>>
    /\ UNCHANGED deviceVars
    /\ UNCHANGED <<env, stdout, calls>>

CleanCmd(cwd) == Cmd(<<"make", "clean">>, cwd)

\* repo.git.clean('-dxf') in the lede tree: the files that are not under
\* version control are gone
Purged(f) ==
    [f EXCEPT !.feeds.exists = FALSE, !.feeds.lines = <<>>,
              !.config = FreshFiles.config, !.bin = {}, !.staging = {}]

\* clean(purge): `make clean`, or git clean in every repository of the store
clean ==
    /\ pc = "ready"
    /\ \E purge, ok \in BOOLEAN :
        IF ~purge
        THEN /\ cmds' = Append(cmds, Ran(CleanCmd(working_dir), ok))
             /\ files' = IF ok /\ working_dir = LEDE
                         THEN [files EXCEPT !.bin = {}] ELSE files
             /\ gitops' = gitops
             /\ Finish(IF Failed(ok) THEN "CalledProcessError" ELSE "ok")
        ELSE /\ gitops' = gitops \o
                    SelectSeq([i \in 1..Len(ConfigRepos) |-> <<"clean", ConfigRepos[i]>>],
                              LAMBDA o : store[o[2]] = "Repo")
             /\ files' = IF store[LEDE] = "Repo" THEN Purged(files) ELSE files
             /\ cmds' = cmds
             /\ Finish("ok")
    /\ UNCHANGED <<repos, origin, buildDir, store, idx, error, walker>>
    /\ UNCHANGED <<cfg, initial, working_dir, errlog, clock>>
    /\ UNCHANGED deviceVars
    /\ UNCHANGED procVars

\* ------------------------------------------- operations on one Builder

\* the public operations one Builder is asked for, one after the other
MaxCalls == 2

\* the operation has returned and the caller asks for another one
returned ==
    /\ pc = "done"
    /\ calls < MaxCalls
    /\ calls' = calls + 1
    /\ pc' = "ready"
    /\ outcome' = "running"
    /\ UNCHANGED repoVars
    /\ UNCHANGED <<cfg, initial, working_dir, errlog, env, stdout, asked>>
    /\ UNCHANGED fileVars
    /\ UNCHANGED deviceVars

\* the configurations with one flag forced, or none, or all
ForcedConfigs ==
    {PlainConfig,
     [PlainConfig EXCEPT !.feeds_create = TRUE],
     [PlainConfig EXCEPT !.feeds_update = TRUE],
     [PlainConfig EXCEPT !.feeds_install = TRUE],
     [PlainConfig EXCEPT !.config_always = TRUE]}

\* a new Builder over a build directory that is empty, or that an earlier
\* prepare has worked on
InitOps ==
    /\ \E fresh \in BOOLEAN :
        /\ repos = [n \in Names |-> IF fresh THEN NoRepo("missing")
                                    ELSE Cloned(FullServer, ConfigBranch(n))]
        /\ files \in (IF fresh THEN {FreshFiles}
                      ELSE {PreparedFiles(1), PreparedFiles(2), PreparedFiles(3)})
    /\ origin = [n \in Names |-> FullServer]
    /\ cfg \in ForcedConfigs
    /\ buildDir = TRUE
    /\ store = [n \in Names |-> Opened(repos[n])]
    /\ working_dir = "None"
    /\ pc = "ready"
    /\ idx = Len(ConfigRepos) + 1
    /\ error = FALSE
    /\ walker = <<>>
    /\ outcome = "running"
    /\ errlog = <<>>
    /\ gitops = <<>>
    /\ initial = [repos |-> repos, files |-> files, marker |-> FALSE]
    /\ clock = 4
    /\ cmds = <<>>
    /\ dev = IdleDevice(FALSE)
    /\ rops = <<>>
    /\ env = <<>>
    /\ stdout = <<>>
    /\ calls = 0
    /\ asked = <<>>

NextOps ==
    \/ prepare
    \/ prepare_repo
    \/ prepare_working_dir
    \/ _prepare_feeds
    \/ _prepare_config
    \/ config
    \/ build
    \/ clean
    \/ returned

SpecOps == InitOps /\ [][NextOps]_vars

\* ------------------------------------- claims on feeds and configuration

\* the keys of the derived lines
DerivedKeys == {DerivedLines[i][1] : i \in 1..Len(DerivedLines)}

\* the positions of the lines of a file that set a derived key
DerivedAt(lines) == {i \in 1..Len(lines) : lines[i][1] \in DerivedKeys}

\* the commands the step has added to the log
NewCmds == SubSeq(cmds', Len(cmds) + 1, Len(cmds'))

\* the manifest is the template without its luci line, then one link line
ManifestWellFormed(lines) ==
    /\ lines # <<>>
    /\ lines[Len(lines)] = <<"src-link", LUCI, LUCI>>
    /\ \A i \in 1..(Len(lines) - 1) :
        /\ \A j \in 1..Len(lines[i]) : lines[i][j] # LUCI
        /\ \E t \in 1..Len(FeedsTemplate) : lines[i] = FeedsTemplate[t]

\* C12: a pass of _prepare_feeds that finds the manifest there and is not
\* forced to create it does not write it and leaves its content as it was;
\* a manifest the Builder has written holds no template line that mentions
\* luci and ends with the one link line to the luci tree.
C12_FeedsIdempotent ==
    /\ [](files.feeds.exists => ManifestWellFormed(files.feeds.lines))
    /\ [][(pc = "feeds" /\ files.feeds.exists /\ ~cfg.feeds_create)
            => files'.feeds = files.feeds]_vars
    /\ [][(pc = "feeds" /\ ~(files.feeds.exists /\ ~cfg.feeds_create))
            => /\ files'.feeds.writes = files.feeds.writes + 1
               /\ files'.feeds.exists]_vars

\* prepare ran twice: the first pass created the manifest and updated the
\* feeds, the second has gone through _prepare_feeds without writing
C12_Witness ==
    /\ calls = 1 /\ pc = "config"
    /\ ~initial.files.feeds.exists
    /\ files.feeds.exists /\ files.feeds.writes = 1
    /\ cmds[1] = Ran(FeedsUpdateCmd(LEDE), TRUE)
    /\ Cardinality({k \in 1..Len(cmds) : cmds[k].args = FeedsUpdateCmd(LEDE).args}) = 1

\* no key is set by two lines of the file
NoDuplicateKey(lines) ==
    \A i, j \in 1..Len(lines) : lines[i][1] = lines[j][1] => i = j

\* the file ends with the two derived lines, in order, and has no other
\* line for a derived key
EndsWithDerived(lines) ==
    /\ Len(lines) >= Len(DerivedLines)
    /\ SubSeq(lines, Len(lines) - Len(DerivedLines) + 1, Len(lines)) = DerivedLines
    /\ DerivedAt(lines) = (Len(lines) - Len(DerivedLines) + 1)..Len(lines)

\* C13: a pass of _prepare_config that copies writes the authored lines
\* followed by the two derived lines, in that order; whatever prepare and
\* interactive edits came before, the authored file holds no derived line
\* and the destination holds each derived line once, as written and as
\* expanded.
C13_RoundTrip ==
    /\ [](DerivedAt(files.source.lines) = {})
    /\ [](files.config.raw # <<>> => EndsWithDerived(files.config.raw))
    /\ [](files.config.exists => NoDuplicateKey(files.config.lines))
    /\ [][(pc = "config" /\ files'.config.mtime > clock)
            => /\ files'.config.raw = files.source.lines \o DerivedLines
               /\ files'.source = files.source]_vars

\* prepare, an interactive edit that was saved, and prepare again: the
\* destination was copied from the authored file the edit wrote
C13_Witness ==
    /\ calls = 2 /\ pc = "done"
    /\ files.source.mtime > initial.files.source.mtime
    /\ files.source.lines # <<>>
    /\ files.config.raw = files.source.lines \o DerivedLines
    /\ files.config.mtime > files.source.mtime
    /\ \E k \in 1..Len(cmds) : cmds[k] = Ran(DiffconfigCmd(LEDE), TRUE)
    /\ cmds[Len(cmds)] = Ran(DefconfigCmd(LEDE), TRUE)

\* the step ended with a command that returned a non-zero exit code
FailedNow == NewCmds # <<>> /\ cmds'[Len(cmds')].rc # 0

\* C15: a command that returns a non-zero exit code is the last thing the
\* run does: it is the last command, the run is ended by
\* CalledProcessError and no step follows; when it is a feed command the
\* configuration file is left as it was, a failed update is not followed
\* by the install, and a failed first `make defconfig` leaves every file
\* as it was.
C15_FailureIsFatal ==
    /\ [](\A k \in 1..Len(cmds) :
            cmds[k].rc # 0 =>
                /\ k = Len(cmds)
                /\ pc = "aborted" /\ outcome = "CalledProcessError")
    /\ [][pc # "aborted"]_vars
    /\ [][(FailedNow /\ pc = "feeds")
            => /\ files'.config = files.config
               /\ files'.source = files.source
               /\ (cmds'[Len(cmds')].args = FeedsUpdateCmd(LEDE).args
                     => Len(NewCmds) = 1)]_vars
    /\ [][(FailedNow /\ pc = "config" /\ ~files.config.exists /\ Len(NewCmds) = 1)
            => files' = files]_vars

\* the feed update succeeded, the feed install failed, and prepare was
\* ended before it prepared the configuration
C15_Witness ==
    /\ pc = "aborted" /\ outcome = "CalledProcessError"
    /\ cmds = <<Ran(FeedsUpdateCmd(LEDE), TRUE), Ran(FeedsInstallCmd(LEDE), FALSE)>>
    /\ ~files.config.exists

\* the first `make defconfig` failed and nothing was copied
C15_WitnessDefconfig ==
    /\ pc = "aborted" /\ outcome = "CalledProcessError"
    /\ cmds[Len(cmds)] = Ran(DefconfigCmd(LEDE), FALSE)
    /\ ~files.config.exists /\ files.config.raw = <<>>

\* -------------------------------------------------- claims on build

\* the arguments of a make command that name its targets
TargetArgs(args, verbose) == SubSeq(args, IF verbose THEN 4 ELSE 3, Len(args))

\* C16: a call of build whose targets all have an alias runs make once,
\* with '<alias>/install' for each target in the order given; a call with
\* a target that has no alias is ended by an exception without running any
\* command or touching any file, whatever the other targets are.
C16_AliasMissIsFatal ==
    [][asked' # asked =>
        LET req == asked'[Len(asked')] IN
            IF \E i \in 1..Len(req.targets) : req.targets[i] \notin DOMAIN aliases
            THEN /\ cmds' = cmds /\ files' = files
                 /\ pc' = "aborted" /\ outcome' \notin {"ok", "running"}
            ELSE /\ Len(NewCmds) = 1
                 /\ NewCmds[1].args[1] = "make"
                 /\ TargetArgs(NewCmds[1].args, req.verbose) =
                        [i \in 1..Len(req.targets) |->
                            aliases[req.targets[i]] \o "/install"]]_vars

\* build was asked for a target with an alias and then one without, and
\* was ended before it ran make
C16_Witness ==
    /\ pc = "aborted" /\ outcome = "KeyError"
    /\ asked # <<>>
    /\ asked[Len(asked)].targets = <<"uboot", "sdk">>
    /\ working_dir = LEDE
    /\ \A k \in 1..Len(cmds) : cmds[k].args[1] # "make" \/ cmds[k].args[2] # "-j1"

\* C17: every external command that has been run, in whatever order the
\* public operations were called, ran with the root of the lede repository
\* as its working directory.
C17_RunsInLedeRoot == \A k \in 1..Len(cmds) : cmds[k].cwd = LEDE

\* the step is a call of _config_lede that ran `make menuconfig`
MenuStep == NewCmds # <<>> /\ NewCmds[1].args = MenuconfigCmd(LEDE).args

\* C18: when `make menuconfig` leaves the modification time of .config as
\* it was, _config_lede runs no other command and leaves the authored
\* configuration, and every other file, as it was.
C18_NoOpWhenUnchanged ==
    [][(MenuStep /\ files'.config.mtime = files.config.mtime)
        => /\ Len(NewCmds) = 1
           /\ files' = files]_vars

\* the tool was left without saving after an earlier prepare, and config
\* returned
C18_Witness ==
    /\ pc = "done" /\ outcome = "ok"
    /\ cmds # <<>>
    /\ cmds[Len(cmds)] = Ran(MenuconfigCmd(LEDE), TRUE)
    /\ files.source = initial.files.source

\* the lines of a file that set no derived key, in order
WithoutDerived(lines) == SelectSeq(lines, LAMBDA l : l[1] \notin DerivedKeys)

\* the step is a call of _config_lede that stored the diff
StoreStep ==
    /\ MenuStep
    /\ Len(NewCmds) = 2
    /\ NewCmds[2] = Ran(DiffconfigCmd(LEDE), TRUE)

\* C19: when the tool changed .config, _config_lede overwrites the
\* authored configuration with the lines of the diff that set no derived
\* key, in their order, and writes nothing else: .config is as the tool
\* left it; so the authored configuration never holds a derived line.
C19_StoresFilteredDiff ==
    /\ [](\A i \in 1..Len(files.source.lines) :
            files.source.lines[i][1] \notin DerivedKeys)
    /\ [][StoreStep =>
            /\ files'.config.mtime # files.config.mtime
            /\ files'.source.lines = WithoutDerived(Diff(files'.config.lines))
            /\ files'.source.mtime > files.source.mtime
            /\ \E choice \in MenuChoices :
                files'.config = Menuconfig(files, choice, clock).config
            /\ files'.feeds = files.feeds /\ files'.bin = files.bin]_vars

\* an edit was stored: the diff held the derived lines, the authored
\* configuration holds the user's two lines only
C19_Witness ==
    /\ pc = "done" /\ outcome = "ok"
    /\ Len(cmds) >= 2
    /\ cmds[Len(cmds)] = Ran(DiffconfigCmd(LEDE), TRUE)
    /\ DerivedAt(Diff(files.config.lines)) # {}
    /\ files.source.lines =
         << <<"CONFIG_LIBC", "glibc">>, <<"CONFIG_PACKAGE_luci", "y">> >>

\* the step is a pass of _prepare_config that returned normally
ConfigPassed == pc = "config" /\ pc' = "done"

\* C20: a pass of _prepare_config copies exactly when .config was missing
\* at its start, or older than the authored file, or the copy is forced;
\* a pass that does not copy leaves .config as it was and runs no command;
\* a pass that found .config missing runs `make defconfig` twice, one that
\* found it stale or was forced runs it once.
C20_CopyWhenStale ==
    [][ConfigPassed =>
        LET missing == ~files.config.exists
            stale == files.config.exists /\ files.config.mtime < files.source.mtime
            copy == missing \/ stale \/ cfg.config_always
        IN  /\ ~copy => files' = files /\ NewCmds = <<>>
            /\ copy => /\ files'.config.raw = files.source.lines \o DerivedLines
                       /\ files'.config.mtime > files.config.mtime
                       /\ files'.config.mtime > files.source.mtime
            /\ missing => NewCmds = <<Ran(DefconfigCmd(LEDE), TRUE),
                                      Ran(DefconfigCmd(LEDE), TRUE)>>
            /\ (copy /\ ~missing) => NewCmds = <<Ran(DefconfigCmd(LEDE), TRUE)>>]_vars

\* prepare found .config older than the authored file and copied it
C20_Witness ==
    /\ pc = "done" /\ calls = 0
    /\ initial.files.config.exists
    /\ initial.files.config.mtime < initial.files.source.mtime
    /\ ~cfg.config_always
    /\ cmds = <<Ran(DefconfigCmd(LEDE), TRUE)>>
    /\ files.config.mtime > files.source.mtime

\* prepare found .config as old as the authored file and left it alone
C20_WitnessEqual ==
    /\ pc = "done" /\ calls = 0
    /\ initial.files.config.mtime = initial.files.source.mtime
    /\ files.config = initial.files.config
    /\ cmds = <<>>

\* prepare found no .config and ran `make defconfig` twice
C20_WitnessMissing ==
    /\ pc = "done" /\ calls = 0
    /\ ~initial.files.config.exists
    /\ Cardinality({k \in 1..Len(cmds) : cmds[k] = Ran(DefconfigCmd(LEDE), TRUE)}) = 2

\* ---------------------------------------------- claims on the feed steps

\* the positions of the step's commands that ran the given arguments
RanNow(args) == {k \in 1..Len(NewCmds) : NewCmds[k].args = args}

\* the step wrote the manifest
CreatedNow == files'.feeds.writes = files.feeds.writes + 1

\* C21: a pass of _prepare_feeds writes the manifest exactly when it was
\* missing or creation is forced; it runs the update once exactly when it
\* wrote the manifest or the update is forced, and the install once
\* exactly when it wrote the manifest or the install is forced (the install
\* of a pass whose update failed is not reached); forcing one of the two
\* does not run the other; when both run, the update has returned with
\* exit code 0 before the install is run; with the manifest present and
\* nothing forced the pass runs no command and writes no file.
C21_UpdateThenInstall ==
    [][pc = "feeds" =>
        LET update == RanNow(FeedsUpdateCmd(LEDE).args)
            install == RanNow(FeedsInstallCmd(LEDE).args)
            updateFailed == update # {} /\ NewCmds[1].rc # 0
        IN  /\ CreatedNow <=> (~files.feeds.exists \/ cfg.feeds_create)
            /\ ~CreatedNow => files' = files
            /\ update \cup install = 1..Len(NewCmds)
            /\ Cardinality(update) <= 1 /\ Cardinality(install) <= 1
            /\ update # {} <=> (CreatedNow \/ cfg.feeds_update)
            /\ ~updateFailed => (install # {} <=> (CreatedNow \/ cfg.feeds_install))
            /\ updateFailed => install = {}
            /\ (update # {} /\ install # {})
                 => update = {1} /\ install = {2} /\ NewCmds[1].rc = 0
            /\ (files.feeds.exists /\ ~cfg.feeds_create
                  /\ ~cfg.feeds_update /\ ~cfg.feeds_install)
                 => NewCmds = <<>> /\ files' = files]_vars

\* the manifest was present and only the update forced: the pass ran the
\* update alone and left the manifest as it was
C21_Witness ==
    /\ calls = 0 /\ pc \in {"config", "done"}
    /\ initial.files.feeds.exists
    /\ cfg.feeds_update /\ ~cfg.feeds_install /\ ~cfg.feeds_create
    /\ cmds # <<>>
    /\ cmds[1] = Ran(FeedsUpdateCmd(LEDE), TRUE)
    /\ \A k \in 1..Len(cmds) : cmds[k].args # FeedsInstallCmd(LEDE).args
    /\ files.feeds = initial.files.feeds

\* the manifest was present and only the install forced: the pass ran the
\* install alone
C21_WitnessInstall ==
    /\ calls = 0 /\ pc = "config"
    /\ initial.files.feeds.exists
    /\ cfg.feeds_install /\ ~cfg.feeds_update /\ ~cfg.feeds_create
    /\ cmds = <<Ran(FeedsInstallCmd(LEDE), TRUE)>>

\* the manifest was missing: the pass wrote it and ran the update, then
\* the install
C21_WitnessBoth ==
    /\ calls = 0 /\ pc = "config"
    /\ ~initial.files.feeds.exists /\ cfg = PlainConfig
    /\ files.feeds.writes = 1
    /\ cmds = <<Ran(FeedsUpdateCmd(LEDE), TRUE), Ran(FeedsInstallCmd(LEDE), TRUE)>>

\* the manifest was present and nothing forced: the pass ran no command
C21_WitnessNeither ==
    /\ calls = 0 /\ pc = "config"
    /\ initial.files.feeds.exists /\ cfg = PlainConfig
    /\ cmds = <<>> /\ files = initial.files

\* ------------------------------------------ claims on the order of prepare

\* the position of a repository in the configuration
Declared(n) == CHOOSE i \in 1..Len(ConfigRepos) : ConfigRepos[i] = n

IsFeedCmd(c) == c.args \in {FeedsUpdateCmd(LEDE).args, FeedsInstallCmd(LEDE).args}

IsConfigCmd(c) == c.args = DefconfigCmd(LEDE).args

\* _prepare_repo has returned for every configured repository, in the
\* order of the configuration
AllSynchronized ==
    /\ SyncCompleted
    /\ Len(walker) = Len(ConfigRepos)
    /\ \A i \in 1..Len(walker) : walker[i].name = ConfigRepos[i]
    /\ \A n \in Names : repos[n].disk = "repo" /\ store[n] = "Repo"

\* C22: prepare works on the repositories in the order of the
\* configuration, one after the other; no command is run and no file of the
\* lede tree is written before _prepare_repo has returned for every
\* repository; the feed pass starts only then, does no repository
\* operation and leaves the configuration files as they are; the
\* configuration pass starts only after the feed pass has returned, with
\* every feed command at exit code 0, and leaves the manifest and the
\* repositories as they are; every feed command precedes every
\* `make defconfig`.
C22_SyncThenFeedsThenConfig ==
    /\ [](\A k, l \in 1..Len(gitops) :
            k < l => Declared(gitops[k][2]) <= Declared(gitops[l][2]))
    /\ []((cmds # <<>> \/ files # initial.files \/ pc \in {"feeds", "config", "done"})
            => AllSynchronized)
    /\ [](pc = "feeds" => cmds = <<>> /\ files = initial.files)
    /\ [](pc = "config" => \A k \in 1..Len(cmds) : IsFeedCmd(cmds[k]) /\ cmds[k].rc = 0)
    /\ [](\A k, l \in 1..Len(cmds) :
            (k < l /\ IsConfigCmd(cmds[k])) => IsConfigCmd(cmds[l]))
    /\ [][(pc \in {"new", "ready", "sync"}) => (cmds' = cmds /\ files' = files)]_vars
    /\ [][(gitops' # gitops \/ repos' # repos \/ store' # store)
            => pc \in {"new", "sync"}]_vars
    /\ [][pc' = "feeds" => (pc = "sync" /\ idx > Len(walker))]_vars
    /\ [][pc = "feeds" =>
            /\ files'.config = files.config /\ files'.source = files.source
            /\ \A k \in 1..Len(NewCmds) : IsFeedCmd(NewCmds[k])]_vars
    /\ [][pc' = "config" => pc = "feeds"]_vars
    /\ [][pc = "config" =>
            /\ files'.feeds = files.feeds
            /\ \A k \in 1..Len(NewCmds) : IsConfigCmd(NewCmds[k])]_vars

\* prepare in an empty build directory: the four repositories were cloned
\* in the order of the configuration, then the feeds were updated and
\* installed, then `make defconfig` was run twice
C22_Witness ==
    /\ pc = "done"
    /\ \A n \in Names : initial.repos[n].disk = "missing"
    /\ gitops # <<>>
    /\ \A n \in Names : ClonesOf(n) = 1
    /\ gitops[1] = <<"clone", ConfigRepos[1]>>
    /\ gitops[Len(gitops)][2] = ConfigRepos[Len(ConfigRepos)]
    /\ cmds = <<Ran(FeedsUpdateCmd(LEDE), TRUE), Ran(FeedsInstallCmd(LEDE), TRUE),
                Ran(DefconfigCmd(LEDE), TRUE), Ran(DefconfigCmd(LEDE), TRUE)>>

\* ------------------------------------------------ claims on a failed edit

\* the step is a call of _config_lede in which the tool changed .config
\* and scripts/diffconfig.sh returned a non-zero exit code
DiffFailedNow ==
    /\ MenuStep
    /\ Len(NewCmds) = 2
    /\ NewCmds[2] = Ran(DiffconfigCmd(LEDE), FALSE)

\* C23: a call of _config_lede in which scripts/diffconfig.sh fails, after
\* the tool changed .config, leaves the authored configuration with the
\* lines it had before the call: the file is not left empty or partly
\* written.
C23_AuthoredKeptOnFailure ==
    [][DiffFailedNow => files'.source.lines = files.source.lines]_vars

\* ----------------------------------------------------------------- deploy

\* _use_glibc: a line of the authored configuration starts with
\* CONFIG_LIBC="glibc"
_use_glibc(f) ==
    \E i \in 1..Len(f.source.lines) :
        f.source.lines[i] = <<"CONFIG_LIBC", "glibc">>

\* the directory of the build output the images are taken from
GenericDir(f) == IF _use_glibc(f) THEN "generic-glibc" ELSE "generic"

\* the two images deploy resolves for the SD card, each a path made of the
\* output directory and the file's name
Image(f) ==
    [boot_bin |-> <<GenericDir(f), "BOOT.bin">>,
     fit_itb |-> <<GenericDir(f), "fit.itb">>]

\* a deploy that takes every target for the SD card
IsSdTargetAlways(target) == TRUE

\* `if target == 'sd'`
IsSdTarget(target) == target = "sd"

\* SSHManager.__enter__: the session is open
SSHOpen(d) == [d EXCEPT !.ssh = "open"]

\* SSHManager.__exit__: the session is closed, and its channel with it
SSHClose(d) ==
    [d EXCEPT !.ssh = "closed",
              !.sftp = IF @ = "open" THEN "closed" ELSE @]

\* a block that is left without releasing the session
LeaveWithLeak(d) == d

\* leaving the block of `with SSHManager(...) as ssh`, normally or by an
\* exception: __exit__ is called
LeaveWith(d) == SSHClose(d)

\* the statements of _deploy_ssh_sd in the order they are written, each
\* with the one that follows it
AfterSwapped(p) ==
    CASE p = "connect" -> "open_sftp"
      [] p = "open_sftp" -> "mount1"
      [] p = "mount1" -> "chdir1"
      [] p = "chdir1" -> "uenv"
      [] p = "uenv" -> "put_boot"
      [] p = "put_boot" -> "umount1"
      [] p = "umount1" -> "mount2"
      [] p = "mount2" -> "chdir2"
      [] p = "chdir2" -> "put_fit"
      [] p = "put_fit" -> "remove"
      [] p = "remove" -> "umount2"
      [] p = "umount2" -> "reboot"
      [] p = "reboot" -> "exit"

After(p) ==
    CASE p = "connect" -> "open_sftp"
      [] p = "open_sftp" -> "mount1"
      [] p = "mount1" -> "chdir1"
      [] p = "chdir1" -> "uenv"
      [] p = "uenv" -> "put_boot"
      [] p = "put_boot" -> "put_fit"
      [] p = "put_fit" -> "umount1"
      [] p = "umount1" -> "mount2"
      [] p = "mount2" -> "chdir2"
      [] p = "chdir2" -> "remove"
      [] p = "remove" -> "umount2"
      [] p = "umount2" -> "reboot"
      [] p = "reboot" -> "exit"

\* the partition on top of /mnt (0: none)
Mounted(d) == IF d.mounts = <<>> THEN 0 ELSE d.mounts[Len(d.mounts)]

Mount(d, part) == [d EXCEPT !.mounts = Append(@, part)]

Umount(d) ==
    [d EXCEPT !.mounts = IF @ = <<>> THEN @ ELSE SubSeq(@, 1, Len(@) - 1)]

\* a file written through the channel lands on the partition mounted then
Written(d, file) == [d EXCEPT !.written = @ \cup {<<file, Mounted(d)>>}]

othersUnchanged ==
    /\ UNCHANGED repoVars
    /\ UNCHANGED <<cfg, initial, working_dir>>
    /\ UNCHANGED fileVars
    /\ UNCHANGED procVars

\* one remote operation of the block at position p: it is issued, and it
\* either succeeds, leaving the device as okdev, or raises, which leaves
\* the block
Remote(p, op, okdev) ==
    /\ pc = p
    /\ rops' = Append(rops, op)
    /\ \E ok \in BOOLEAN :
        IF ok
        THEN dev' = okdev /\ pc' = After(p) /\ outcome' = outcome
        ELSE dev' = LeaveWith(dev) /\ pc' = "aborted" /\ outcome' = "RemoteError"
    /\ errlog' = errlog
    /\ othersUnchanged

\* deploy(): resolve the images and dispatch on the target
deploy ==
    /\ pc = "ready"
    /\ IF working_dir = "None"
       THEN pc' = "aborted" /\ outcome' = "TypeError" /\ errlog' = errlog
       ELSE IF IsSdTarget(cfg.target)
       THEN pc' = "connect" /\ outcome' = outcome /\ errlog' = errlog
       ELSE /\ pc' = "done" /\ outcome' = "ok"
            /\ errlog' = Append(errlog, <<"Unsupported target", cfg.target>>)
    /\ UNCHANGED deviceVars
    /\ othersUnchanged

\* `with SSHManager(hostname, username, password) as ssh`: a session that
\* cannot be opened raises before the block is entered
ssh_connect ==
    /\ pc = "connect"
    /\ rops' = Append(rops, <<"connect">>)
    /\ \E ok \in BOOLEAN :
        IF ok
        THEN dev' = SSHOpen(dev) /\ pc' = After("connect") /\ outcome' = outcome
        ELSE dev' = dev /\ pc' = "aborted" /\ outcome' = "RemoteError"
    /\ errlog' = errlog
    /\ othersUnchanged

open_sftp == Remote("open_sftp", <<"open_sftp">>, [dev EXCEPT !.sftp = "open"])

mount_p1 == Remote("mount1", <<"run", "mount", "/dev/mmcblk0p1", "/mnt">>, Mount(dev, 1))

chdir_p1 == Remote("chdir1", <<"chdir", "/mnt">>, [dev EXCEPT !.cwd = "/mnt"])

write_uenv == Remote("uenv", <<"open", "uEnv.txt">>, Written(dev, "uEnv.txt"))

\* sftp.put(localpath, name) at position p: a local file that is not
\* there raises before anything is sent, else the file is transferred like
\* any other remote operation
Put(p, local, name) ==
    IF local \in files.bin
    THEN Remote(p, <<"put", name>>, Written(dev, name))
    ELSE /\ pc = p
         /\ dev' = LeaveWith(dev)
         /\ pc' = "aborted"
         /\ outcome' = "FileNotFoundError"
         /\ UNCHANGED <<rops, errlog>>
         /\ othersUnchanged

put_boot == Put("put_boot", Image(files).boot_bin, "BOOT.bin")

put_fit == Put("put_fit", Image(files).fit_itb, "fit.itb")

umount_p1 == Remote("umount1", <<"run", "umount", "/mnt">>, Umount(dev))

mount_p2 == Remote("mount2", <<"run", "mount", "/dev/mmcblk0p2", "/mnt">>, Mount(dev, 2))

chdir_p2 == Remote("chdir2", <<"chdir", "/mnt">>, [dev EXCEPT !.cwd = "/mnt"])

\* a removal that does not look at the configuration
RemovalAskedAlways(conf) == TRUE

\* `self._config.deploy.remove_uuid == 'yes'`
RemovalAsked(conf) == conf.remove_uuid

\* a listing that always shows the marker
MarkerListedAlways(d) == TRUE

\* '.extroot-uuid' in sftp.listdir('etc'), on the partition mounted
MarkerListed(d) == Mounted(d) = 2 /\ d.marker

\* sftp.remove('etc/.extroot-uuid') can succeed only if the file is there
CanRemove(d) == Mounted(d) = 2 /\ d.marker

\* the removal of the marker: nothing when it is not asked for, else the
\* listing and, when the marker is listed, the remove
remove_uuid ==
    /\ pc = "remove"
    /\ IF ~RemovalAsked(cfg)
       THEN rops' = rops /\ dev' = dev /\ pc' = After("remove") /\ outcome' = outcome
       ELSE \E okL, okR \in BOOLEAN :
            IF ~okL
            THEN /\ rops' = Append(rops, <<"listdir", "etc">>)
                 /\ dev' = LeaveWith(dev) /\ pc' = "aborted" /\ outcome' = "RemoteError"
            ELSE IF ~MarkerListed(dev)
            THEN /\ rops' = Append(rops, <<"listdir", "etc">>)
                 /\ dev' = dev /\ pc' = After("remove") /\ outcome' = outcome
            ELSE /\ rops' = rops \o << <<"listdir", "etc">>, <<"remove", "etc/.extroot-uuid">> >>
                 /\ IF okR /\ CanRemove(dev)
                    THEN /\ dev' = [dev EXCEPT !.marker = FALSE]
                         /\ pc' = After("remove") /\ outcome' = outcome
                    ELSE /\ dev' = LeaveWith(dev)
                         /\ pc' = "aborted" /\ outcome' = "RemoteError"
    /\ errlog' = errlog
    /\ othersUnchanged

umount_p2 == Remote("umount2", <<"run", "umount", "/mnt">>, Umount(dev))

\* a reboot that does not look at the configuration
RebootAskedAlways(conf) == TRUE

\* `self._config.deploy.reboot == 'yes'`
RebootAsked(conf) == conf.reboot

reboot ==
    \/ /\ RebootAsked(cfg)
       /\ Remote("reboot", <<"run", "reboot">>, dev)
    \/ /\ ~RebootAsked(cfg)
       /\ pc = "reboot"
       /\ pc' = After("reboot")
       /\ UNCHANGED <<dev, rops, outcome, errlog>>
       /\ othersUnchanged

\* the end of the block, and of deploy
ssh_exit ==
    /\ pc = "exit"
    /\ dev' = LeaveWith(dev)
    /\ pc' = "done"
    /\ outcome' = "ok"
    /\ UNCHANGED <<rops, errlog>>
    /\ othersUnchanged

\* the authored configuration with the C library chosen
SourceWith(glibc) ==
    [mtime |-> 2,
     lines |-> AuthoredConfig \o
               (IF glibc THEN << <<"CONFIG_LIBC", "glibc">> >> ELSE <<>>)]

\* a Builder over a build directory that prepare has completed on, either
\* new (no working directory yet) or the one prepare ran on
InitDeploy ==
    /\ repos = [n \in Names |-> Cloned(FullServer, ConfigBranch(n))]
    /\ origin = [n \in Names |-> FullServer]
    /\ cfg \in {[PlainConfig EXCEPT !.target = t, !.remove_uuid = rm, !.reboot = rb] :
                   t \in {"sd", "nand"}, rm \in BOOLEAN, rb \in BOOLEAN}
    /\ buildDir = TRUE
    /\ store = [n \in Names |-> "Repo"]
    /\ working_dir \in {"None", LEDE}
    /\ pc = "ready"
    /\ idx = Len(ConfigRepos) + 1
    /\ error = FALSE
    /\ walker = <<>>
    /\ outcome = "running"
    /\ errlog = <<>>
    /\ gitops = <<>>
    /\ files \in {[PreparedFiles(3) EXCEPT !.source = SourceWith(g), !.bin = b] :
                     g \in BOOLEAN,
                     b \in {Built("generic"), Built("generic-glibc"),
                            {<<"generic", "BOOT.bin">>}}}
    /\ clock = 4
    /\ cmds = <<>>
    /\ dev \in {IdleDevice(m) : m \in BOOLEAN}
    /\ rops = <<>>
    /\ env = <<>>
    /\ stdout = <<>>
    /\ calls = 0
    /\ asked = <<>>
    /\ initial = [repos |-> repos, files |-> files, marker |-> dev.marker]

NextDeploy ==
    \/ deploy
    \/ ssh_connect
    \/ open_sftp
    \/ mount_p1
    \/ chdir_p1
    \/ write_uenv
    \/ put_boot
    \/ put_fit
    \/ umount_p1
    \/ mount_p2
    \/ chdir_p2
    \/ remove_uuid
    \/ umount_p2
    \/ reboot
    \/ ssh_exit

SpecDeploy == InitDeploy /\ [][NextDeploy]_vars

\* -------------------------------------------------------------- toolchain

\* a string is the sequence of its characters; PATH is made of these, "t"
\* standing for the text of toolchain_dir and "b" for '/bin'
PathChars == {"t", "b", "x", ":"}

\* the longest PATH
MaxPath == 3

Paths == UNION {[1..n -> PathChars] : n \in 0..MaxPath}

\* toolchain_dir + '/bin'
ToolchainBin == <<"t", "b">>

\* `sub in text`, for two strings
InString(sub, text) ==
    \E i \in 0..(Len(text) - Len(sub)) : SubSeq(text, i + 1, i + Len(sub)) = sub

TargetName(glibc) ==
    IF glibc THEN "target-arm_cortex-a9+neon_glibc-2.24_eabi"
    ELSE "target-arm_cortex-a9+neon_musl-1.1.16_eabi"

ToolchainName(glibc) ==
    IF glibc THEN "toolchain-arm_cortex-a9+neon_gcc-5.4.0_glibc-2.24_eabi"
    ELSE "toolchain-arm_cortex-a9+neon_gcc-5.4.0_musl-1.1.16_eabi"

\* the directories a build leaves under staging_dir
Staged(glibc) == {TargetName(glibc), ToolchainName(glibc)}

\* the lines toolchain writes for a target and a toolchain that exist
EnvLines(target_dir, toolchain_dir) ==
    << <<"TARGET", target_dir>>, <<"TOOLCHAIN", toolchain_dir>>,
       <<"export", "STAGING_DIR">> >>

PathLine == <<"export", "PATH">>

\* toolchain(): the two directories are checked, then the script is written
toolchain ==
    /\ pc = "ready"
    /\ IF working_dir = "None"
       THEN Finish("TypeError") /\ UNCHANGED <<stdout, errlog>>
       ELSE LET target_dir == TargetName(_use_glibc(files))
                toolchain_dir == ToolchainName(_use_glibc(files))
            IN  IF target_dir \notin files.staging
                THEN /\ errlog' = Append(errlog, <<"Target directory does not exist",
                                                   target_dir>>)
                     /\ stdout' = Append(stdout, <<"echo", target_dir>>)
                     /\ Finish("BuilderStop")
                ELSE IF toolchain_dir \notin files.staging
                THEN /\ errlog' = Append(errlog, <<"Toolchain directory does not exist",
                                                   toolchain_dir>>)
                     /\ stdout' = Append(stdout, <<"echo", toolchain_dir>>)
                     /\ Finish("BuilderStop")
                ELSE /\ stdout' = stdout \o EnvLines(target_dir, toolchain_dir)
                                  \o (IF ~InString(ToolchainBin, env)
                                      THEN <<PathLine>> ELSE <<>>)
                     /\ errlog' = errlog
                     /\ Finish("ok")
    /\ UNCHANGED repoVars
    /\ UNCHANGED <<cfg, initial, working_dir, env, calls, asked>>
    /\ UNCHANGED fileVars
    /\ UNCHANGED deviceVars

\* a Builder as in InitDeploy, in a process with any PATH, over a tree
\* with the staging directories of one C library, of both, or of none
InitToolchain ==
    /\ repos = [n \in Names |-> Cloned(FullServer, ConfigBranch(n))]
    /\ origin = [n \in Names |-> FullServer]
    /\ cfg = PlainConfig
    /\ buildDir = TRUE
    /\ store = [n \in Names |-> "Repo"]
    /\ working_dir \in {"None", LEDE}
    /\ pc = "ready"
    /\ idx = Len(ConfigRepos) + 1
    /\ error = FALSE
    /\ walker = <<>>
    /\ outcome = "running"
    /\ errlog = <<>>
    /\ gitops = <<>>
    /\ files \in {[PreparedFiles(3) EXCEPT !.source = SourceWith(g), !.staging = d] :
                     g \in BOOLEAN,
                     d \in {{}, Staged(FALSE), Staged(TRUE) \cup Staged(FALSE),
                            {TargetName(TRUE)}}}
    /\ clock = 4
    /\ cmds = <<>>
    /\ dev = IdleDevice(FALSE)
    /\ rops = <<>>
    /\ env \in Paths
    /\ stdout = <<>>
    /\ calls = 0
    /\ asked = <<>>
    /\ initial = [repos |-> repos, files |-> files, marker |-> FALSE]

NextToolchain == toolchain

SpecToolchain == InitToolchain /\ [][NextToolchain]_vars

\* ------------------------------------------------- claims on toolchain

\* the components of a colon-separated PATH
Components(path) ==
    {SubSeq(path, b[1], b[2]) :
        b \in {c \in (1..(Len(path) + 1)) \X (0..Len(path)) :
                /\ c[2] >= c[1] - 1
                /\ (c[1] = 1 \/ path[c[1] - 1] = ":")
                /\ (c[2] = Len(path) \/ path[c[2] + 1] = ":")
                /\ \A k \in c[1]..c[2] : path[k] # ":"}}

\* C14: a toolchain call that finds both directories writes the three
\* environment lines, and after them the PATH line exactly when the
\* toolchain's bin directory is not a component of PATH.
C14_PathLineIffNotComponent ==
    (pc = "done" /\ stdout # <<>>) =>
        /\ SubSeq(stdout, 1, 3) =
             EnvLines(TargetName(_use_glibc(files)), ToolchainName(_use_glibc(files)))
        /\ (ToolchainBin \notin Components(env)) <=> stdout[Len(stdout)] = PathLine

\* --------------------------------------------------- claims on deploy

DeployEnded == pc \in {"done", "aborted"}

MountOp(part) ==
    IF part = 1 THEN <<"run", "mount", "/dev/mmcblk0p1", "/mnt">>
    ELSE <<"run", "mount", "/dev/mmcblk0p2", "/mnt">>

UmountOp == <<"run", "umount", "/mnt">>

RemoveOp == <<"remove", "etc/.extroot-uuid">>

RebootOp == <<"run", "reboot">>

\* the images deploy resolved are both in the build output
ImagePresent == {Image(files).boot_bin, Image(files).fit_itb} \subseteq files.bin

Uploads == {k \in 1..Len(rops) : rops[k][1] \in {"open", "put"}}

\* C11: when an image resolved for the selected C library is not in the
\* build output, deploy has written no descriptor and uploaded no image:
\* the error is raised before the transfer begins.
C11_CaughtBeforeUpload ==
    (cfg.target = "sd" /\ ~ImagePresent) => Uploads = {} /\ dev.written = {}

\* C6: when deploy has ended, normally or by the failure of any remote
\* operation, the session is not open and neither is its channel.
C6_SessionClosed ==
    DeployEnded => dev.ssh # "open" /\ dev.sftp # "open"

\* an upload failed with partition 1 mounted, and the session was closed
C6_Witness ==
    /\ pc = "aborted" /\ outcome = "RemoteError"
    /\ rops[Len(rops)] = <<"put", "fit.itb">>
    /\ Mounted(dev) = 1
    /\ dev.ssh = "closed" /\ dev.sftp = "closed"

\* C7: with a deploy target other than 'sd' no remote operation is ever
\* issued and the device is never touched.
C7_NoRemoteOps ==
    cfg.target # "sd" => rops = <<>> /\ dev = IdleDevice(initial.marker)

\* deploy has ended for an unsupported target, on a prepared Builder
C7_Witness ==
    /\ cfg.target # "sd" /\ working_dir = LEDE
    /\ DeployEnded /\ Logged("Unsupported target")

\* C8: with a deploy target other than 'sd', deploy ends in a fatal stop,
\* not in a normal return.
C8_UnsupportedTargetIsFatal ==
    (cfg.target # "sd" /\ DeployEnded) => pc = "aborted"

Removes == {k \in 1..Len(rops) : rops[k][1] = "remove"}

\* operation k was issued with partition 2 mounted: after its mount and
\* before the next unmount
WhileP2Mounted(k) ==
    \E m \in 1..(k - 1) :
        /\ rops[m] = MountOp(2)
        /\ \A u \in (m + 1)..k : rops[u] # UmountOp

\* the removal step of a deploy to the SD card has been passed without an
\* exception
PastRemoval == cfg.target = "sd" /\ pc \in {"umount2", "reboot", "exit", "done"}

\* C9: a remove is issued only when the flag is set and the marker is
\* there, then exactly once, on etc/.extroot-uuid, after the mount of
\* partition 2 and before its unmount; otherwise no remove is issued.
C9_MarkerRemoval ==
    /\ Cardinality(Removes) <= 1
    /\ \A k \in Removes : rops[k] = RemoveOp /\ WhileP2Mounted(k)
    /\ Removes # {} => cfg.remove_uuid /\ initial.marker
    /\ (PastRemoval /\ cfg.remove_uuid /\ initial.marker) =>
        /\ Cardinality(Removes) = 1
        /\ ~dev.marker
    /\ (pc = "done" /\ Removes # {}) =>
        \E k \in Removes : \E u \in (k + 1)..Len(rops) : rops[u] = UmountOp

\* a deploy with the flag set removed the marker and completed
C9_Witness ==
    /\ pc = "done" /\ outcome = "ok"
    /\ cfg.remove_uuid /\ initial.marker
    /\ Cardinality(Removes) = 1

\* a deploy with the flag set found no marker and completed
C9_WitnessAbsent ==
    /\ pc = "done" /\ outcome = "ok"
    /\ cfg.target = "sd" /\ cfg.remove_uuid /\ ~initial.marker
    /\ Removes = {}

\* the operations the order is stated for: the channel set-up, the
\* changes of directory and the listing are left out
RECURSIVE Essential(_)
Essential(ops) ==
    IF ops = <<>> THEN <<>>
    ELSE IF Head(ops)[1] \in {"open_sftp", "chdir", "listdir"}
    THEN Essential(Tail(ops))
    ELSE <<Head(ops)>> \o Essential(Tail(ops))

\* the order of a successful deploy
FixedOrder(conf, marker) ==
    << <<"connect">>, MountOp(1), <<"open", "uEnv.txt">>, <<"put", "BOOT.bin">>,
       <<"put", "fit.itb">>, UmountOp, MountOp(2) >>
    \o (IF conf.remove_uuid /\ marker THEN <<RemoveOp>> ELSE <<>>)
    \o <<UmountOp>>
    \o (IF conf.reboot THEN <<RebootOp>> ELSE <<>>)

\* C10: a successful deploy issues its operations in the fixed order; the
\* three files are written with partition 1 mounted, never more than one
\* partition is mounted, and a reboot comes last, after both unmounts.
C10_FixedOrder ==
    /\ (pc = "done" /\ cfg.target = "sd") =>
        Essential(rops) = FixedOrder(cfg, initial.marker)
    /\ Len(dev.mounts) <= 1
    /\ \A w \in dev.written : w[2] = 1
    /\ \A k \in 1..Len(rops) :
        rops[k] = RebootOp =>
            /\ k = Len(rops)
            /\ dev.mounts = <<>>
            /\ Cardinality({u \in 1..(k - 1) : rops[u] = UmountOp}) = 2

\* a deploy with removal and reboot asked for completed
C10_Witness ==
    /\ pc = "done" /\ outcome = "ok"
    /\ cfg.remove_uuid /\ initial.marker /\ cfg.reboot
    /\ Len(Essential(rops)) = 10
    /\ dev.written = {<<"uEnv.txt", 1>>, <<"BOOT.bin", 1>>, <<"fit.itb", 1>>}

====
